---- MODULE Spec2Model ----
(***************************************************************************)
(* Model of the form pipeline of src/script.js (class FormHandler) and of  *)
(* the helpers it uses (formatPhoneNumber, isValidEmail).                  *)
(*                                                                         *)
(* Strings are sequences of one-character strings, so that trim(), the     *)
(* regular expressions and the phone formatter are computed character by   *)
(* character as the code computes them.                                    *)
(***************************************************************************)
EXTENDS Integers, Sequences, FiniteSets, TLC

\* ------------------------------------------------------------------ bounds
\* submissions whose network call may be in flight at the same time
MaxPending == 2
\* notifications that may be in the page at the same time
MaxNotes == 2
\* length of the strings handed to isValidEmail
MaxEmailLen == 6
\* characters appended to an example before it is handed to formatPhoneNumber
MaxPhoneAppend == 4
\* digit keys pressed in the phone field
MaxKeys == 11
\* notifications shown in the specification of their timers
MaxBanners == 2
\* clicks on the close button of one notification
MaxClicks == 1
\* pending timers of the mobile menu
MaxMenuTimers == 3
\* FAQ items of the page
MaxFaqItems == 4
\* pending scroll timers of the FAQ accordion
MaxFaqTimers == 3
\* calls of the debounced function in one run
MaxCalls == 4
\* calls of the throttled function in one run
MaxThrottleCalls == 4
\* submit events handled in one run of the attempts specification
MaxAttempts == 2

\* ------------------------------------------------------------- characters
Digits == {"0", "1", "2", "3", "4", "5", "6", "7", "8", "9"}
WhiteSpace == {" "}

\* ---------------------------------------------------------- sample inputs
EmptyStr == << >>
BlankStr == <<" ">>
TextStr == <<"a", "b">>
PaddedEmailStr == <<" ", "a", "@", "b", ".", "c", "o">>
ShortDigitsStr == <<"5", "5", "5">>
TenDigitsStr == <<"5", "5", "5", "1", "2", "3", "4", "5", "6", "7">>

\* what a user may leave in a field by typing or pasting
Samples == {EmptyStr, BlankStr, TextStr, PaddedEmailStr, ShortDigitsStr, TenDigitsStr}

\* --------------------------------------------------------- string helpers
RECURSIVE SelectDigits(_)
\* value.replace(/\D/g, '')
SelectDigits(s) ==
  IF s = << >> THEN << >>
  ELSE IF Head(s) \in Digits THEN <<Head(s)>> \o SelectDigits(Tail(s))
       ELSE SelectDigits(Tail(s))

RECURSIVE TrimLeft(_)
TrimLeft(s) ==
  IF s = << >> THEN << >>
  ELSE IF Head(s) \in WhiteSpace THEN TrimLeft(Tail(s)) ELSE s

RECURSIVE TrimRight(_)
TrimRight(s) ==
  IF s = << >> THEN << >>
  ELSE IF s[Len(s)] \in WhiteSpace THEN TrimRight(SubSeq(s, 1, Len(s) - 1)) ELSE s

\* String.prototype.trim
Trim(s) == TrimRight(TrimLeft(s))

Min(a, b) == IF a < b THEN a ELSE b

\* formatPhoneNumber with the third group sliced one digit too far
formatPhoneNumberOffByOne(v) ==
  LET phone == SelectDigits(v)
      n == Len(phone)
      m1 == SubSeq(phone, 1, Min(n, 3))
      m2 == SubSeq(phone, 4, Min(n, 6))
      m3 == SubSeq(phone, 8, n)
  IN IF n <= 10
     THEN IF m2 = << >> THEN m1
          ELSE IF m3 = << >> THEN <<"(">> \o m1 \o <<")", " ">> \o m2
          ELSE <<"(">> \o m1 \o <<")", " ">> \o m2 \o <<"-">> \o m3
     ELSE v

\* formatPhoneNumber that punctuates as soon as a group is complete
formatPhoneNumberEager(v) ==
  LET phone == SelectDigits(v)
      n == Len(phone)
      m1 == SubSeq(phone, 1, Min(n, 3))
      m2 == SubSeq(phone, 4, Min(n, 6))
      m3 == SubSeq(phone, 7, n)
  IN IF n <= 10
     THEN IF n < 3 THEN m1
          ELSE IF n < 6 THEN <<"(">> \o m1 \o <<")", " ">> \o m2
          ELSE <<"(">> \o m1 \o <<")", " ">> \o m2 \o <<"-">> \o m3
     ELSE v

\* formatPhoneNumber(value)
formatPhoneNumber(v) ==
  LET phone == SelectDigits(v)
      n == Len(phone)
      m1 == SubSeq(phone, 1, Min(n, 3))
      m2 == SubSeq(phone, 4, Min(n, 6))
      m3 == SubSeq(phone, 7, n)
  IN IF n <= 10
     THEN IF m2 = << >> THEN m1
          ELSE IF m3 = << >> THEN <<"(">> \o m1 \o <<")", " ">> \o m2
          ELSE <<"(">> \o m1 \o <<")", " ">> \o m2 \o <<"-">> \o m3
     ELSE v

\* regular expression matching by positions: P is the set of positions the
\* match may stand at (1 = before the first character)
\* [^\s@]+ : one or more characters that are neither whitespace nor '@'
AfterPlus(s, P) ==
  {q \in 2..(Len(s) + 1) :
     \E p \in P : p < q /\ \A j \in p..(q - 1) : s[j] \notin (WhiteSpace \cup {"@"})}

\* a literal character
AfterChar(s, P, c) == {p + 1 : p \in {x \in P : x <= Len(s) /\ s[x] = c}}

\* the same matcher with the last group starred ([^\s@]* instead of [^\s@]+)
isValidEmailNoTld(s) ==
  LET dot == AfterChar(s, AfterPlus(s, AfterChar(s, AfterPlus(s, {1}), "@")), ".")
  IN (Len(s) + 1) \in (dot \cup AfterPlus(s, dot))

\* /^[^\s@]+@[^\s@]+\.[^\s@]+$/.test(email)
isValidEmail(s) ==
  (Len(s) + 1) \in
    AfterPlus(s, AfterChar(s, AfterPlus(s, AfterChar(s, AfterPlus(s, {1}), "@")), "."))

\* /^\(\d{3}\) \d{3}-\d{4}$/.test(value)
phoneRegexTest(s) ==
  /\ Len(s) = 14
  /\ s[1] = "(" /\ s[5] = ")" /\ s[6] = " " /\ s[10] = "-"
  /\ \A i \in {2, 3, 4, 7, 8, 9, 11, 12, 13, 14} : s[i] \in Digits

\* ------------------------------------------------------------------ fields
\* the inputs of #creditAnalysisForm: a text input, an input of type email
\* and the input named phone
Fields == {"fullName", "email", "phone"}

\* the samples that make a difference to a field: every one of them is one
\* of Samples
SamplesFor(f) ==
  IF f = "email" THEN {EmptyStr, BlankStr, TextStr, PaddedEmailStr}
  ELSE IF f = "phone" THEN {EmptyStr, TextStr, ShortDigitsStr, TenDigitsStr}
  ELSE {EmptyStr, BlankStr, TextStr}

fieldType(f) == IF f = "email" THEN "email" ELSE IF f = "phone" THEN "tel" ELSE "text"

\* ------------------------------------------------------------------- state
VARIABLES
  required,      \* required[f]: the field carries the required attribute (markup, never changes)
  value,         \* value[f]: field.value
  dom,           \* dom[f].error: the 'error' class of the field;
                 \* dom[f].fieldErrors: the '.field-error' elements of its container
  btnDisabled,   \* submitButton.disabled
  btnLabel,      \* submitButton.innerHTML: "original" or "Processing..."
  pending,       \* number of submitToAPI calls that are awaited and not yet settled
  modalActive,   \* #successModal carries the class 'active'
  notes,         \* messages of the notification elements in document.body, oldest first
  lastLog,       \* what FormHandler last wrote to the console
  unhandled      \* a rejection escaped handleSubmit (unhandledrejection)

\* state of the specifications that exercise one function or one widget
VARIABLES
  emailArg,      \* the string handed to isValidEmail
  emailOut,      \* what isValidEmail returned for it
  phoneArg,      \* the string handed to formatPhoneNumber
  phoneOut,      \* what formatPhoneNumber returned for it
  keys,          \* the digit keys pressed in the phone field so far
  banners        \* the notifications of showNotification with their timers

VARIABLES
  attempts,      \* one record per handled submit event: its payload and its events in order
  checked,       \* the values of the form's checked checkboxes
  scriptAt,      \* how far the evaluation of the script has come
  readyState,    \* document.readyState
  dclFired,      \* DOMContentLoaded has been dispatched
  dclListeners,  \* the DOMContentLoaded listeners of the document, in the order added
  coreInit,      \* runs of App.initializeComponents
  extraInit,     \* runs of the listener that creates the additional components
  isOpen,        \* MobileNavigation.isOpen
  menuDisplay,   \* navMenu.style.display
  menuOpacity,   \* navMenu.style.opacity
  menuTimers,    \* the pending timers of updateMenuState, in the order they were set
  overflow,      \* document.body.style.overflow
  faqActive,     \* the FAQ items that carry the class 'active'
  faqTimers,     \* the pending scrollIntoView timers of toggleItem, in the order set
  dbTimers,      \* debounce: the pending timers, each with its id and the arguments of its 'later'
  dbTimeout,     \* debounce: the timer id held in 'timeout', 0 while undefined
  dbCalls,       \* debounce: the arguments of the calls of the debounced function so far
  dbRuns,        \* debounce: the runs of func so far, each with the timer that made it
  inThrottle,    \* throttle: the flag inThrottle
  thTimers,      \* throttle: the pending limit timers
  thExpired,     \* throttle: the limit timers that have fired so far
  thCalls,       \* throttle: the arguments of the calls of the throttled function so far
  thRuns         \* throttle: the runs of func so far, each with its call and the expiries before it

attemptVars == <<attempts, checked>>
bootVars == <<scriptAt, readyState, dclFired, dclListeners, coreInit, extraInit>>
menuVars == <<isOpen, menuDisplay, menuOpacity, menuTimers>>
faqVars == <<faqActive, faqTimers>>
dbVars == <<dbTimers, dbTimeout, dbCalls, dbRuns>>
thVars == <<inThrottle, thTimers, thExpired, thCalls, thRuns>>

\* the variables of the other components, body overflow apart
ext == <<attemptVars, bootVars, menuVars, faqVars, dbVars, thVars>>

\* the variables the form pipeline never touches
aux == <<emailArg, emailOut, phoneArg, phoneOut, keys, banners, ext>>

vars == <<required, value, dom, btnDisabled, btnLabel, pending, modalActive, notes, lastLog, unhandled,
          emailArg, emailOut, phoneArg, phoneOut, keys, banners, ext, overflow>>

MsgRequired == "This field is required"
MsgEmail == "Please enter a valid email address"
MsgPhone == "Please enter a valid phone number"
MsgFix == "Please fix the errors above"
MsgWrong == "Something went wrong. Please try again."
LabelOriginal == "original"
LabelBusy == "Processing..."

NoError == [error |-> FALSE, fieldErrors |-> << >>]

\* state after construction of FormHandler: the form as the markup gives it
InitForm ==
  /\ required \in [Fields -> BOOLEAN]
  /\ value = [f \in Fields |-> EmptyStr]
  /\ dom = [f \in Fields |-> NoError]
  /\ btnDisabled = FALSE
  /\ btnLabel = LabelOriginal
  /\ pending = 0
  /\ modalActive = FALSE
  /\ notes = << >>
  /\ lastLog = "none"
  /\ unhandled = FALSE

\* debounce: 'timeout' before the first call
NoTimer == 0

\* the page once it is loaded and both groups of components are created: no
\* submit event yet, no checkbox checked, menu closed, no modal, FAQ closed
InitExt ==
  /\ attempts = << >>
  /\ checked = {}
  /\ scriptAt = "done"
  /\ readyState = "complete"
  /\ dclFired = TRUE
  /\ dclListeners = <<"core", "additional">>
  /\ coreInit = 1
  /\ extraInit = 1
  /\ isOpen = FALSE
  /\ menuDisplay = ""
  /\ menuOpacity = ""
  /\ menuTimers = << >>
  /\ overflow = ""
  /\ faqActive = {}
  /\ faqTimers = << >>
  /\ dbTimers = {}
  /\ dbTimeout = NoTimer
  /\ dbCalls = << >>
  /\ dbRuns = << >>
  /\ inThrottle = FALSE
  /\ thTimers = 0
  /\ thExpired = 0
  /\ thCalls = << >>
  /\ thRuns = << >>

\* nothing handed to the helpers yet, no key pressed, no notification shown
InitAux ==
  /\ emailArg = << >>
  /\ emailOut = FALSE
  /\ phoneArg = << >>
  /\ phoneOut = << >>
  /\ keys = << >>
  /\ banners = << >>
  /\ InitExt

Init == InitForm /\ InitAux

\* -------------------------------------------------------- field validation
\* clearFieldError that drops the class and leaves the '.field-error' element
clearFieldErrorClassOnly(d) == [error |-> FALSE, fieldErrors |-> d.fieldErrors]

\* clearFieldError(field): drops the class and the first '.field-error' of the container
clearFieldError(d) ==
  [error |-> FALSE,
   fieldErrors |-> IF d.fieldErrors = << >> THEN << >> ELSE Tail(d.fieldErrors)]

\* showFieldError that appends the element and forgets classList.add('error')
showFieldErrorNoClass(d, message) ==
  [error |-> d.error, fieldErrors |-> Append(d.fieldErrors, message)]

\* showFieldError(field, message)
showFieldError(d, message) ==
  [error |-> TRUE, fieldErrors |-> Append(d.fieldErrors, message)]

\* fieldCheck with the value taken untrimmed (field.value instead of field.value.trim())
fieldCheckNoTrim(f, v) ==
  LET r1 == IF required[f] /\ v = << >>
            THEN [isValid |-> FALSE, errorMessage |-> MsgRequired]
            ELSE [isValid |-> TRUE, errorMessage |-> ""]
      r2 == IF fieldType(f) = "email" /\ v # << >> /\ ~isValidEmail(v)
            THEN [isValid |-> FALSE, errorMessage |-> MsgEmail]
            ELSE r1
      r3 == IF f = "phone" /\ v # << >> /\ ~phoneRegexTest(v)
            THEN [isValid |-> FALSE, errorMessage |-> MsgPhone]
            ELSE r2
  IN r3

\* the three checks of validateField, in the order of the code: a later
\* failing check overwrites the message of an earlier one
fieldCheck(f, v) ==
  LET val == Trim(v)
      r1 == IF required[f] /\ val = << >>
            THEN [isValid |-> FALSE, errorMessage |-> MsgRequired]
            ELSE [isValid |-> TRUE, errorMessage |-> ""]
      r2 == IF fieldType(f) = "email" /\ val # << >> /\ ~isValidEmail(val)
            THEN [isValid |-> FALSE, errorMessage |-> MsgEmail]
            ELSE r1
      r3 == IF f = "phone" /\ val # << >> /\ ~phoneRegexTest(val)
            THEN [isValid |-> FALSE, errorMessage |-> MsgPhone]
            ELSE r2
  IN r3

\* validateField without the clearFieldError call at its start
validateFieldNoClear(f, d) ==
  LET r == fieldCheck(f, value[f])
  IN IF r.isValid THEN d ELSE showFieldError(d, r.errorMessage)

\* validateField(field): what it makes of the class and the '.field-error'
\* elements d of the field
validateField(f, d) ==
  LET r == fieldCheck(f, value[f])
      cleared == clearFieldError(d)
  IN IF r.isValid THEN cleared ELSE showFieldError(cleared, r.errorMessage)

\* the fields validateForm and setupValidation select: [required] only
requiredFields == {f \in Fields : required[f]}

\* validateForm(): its return value
validateForm == \A f \in requiredFields : fieldCheck(f, value[f]).isValid

\* validateForm(): what it makes of the classes and '.field-error' elements d
validateFormOn(d) ==
  [f \in Fields |-> IF f \in requiredFields THEN validateField(f, d[f]) ELSE d[f]]

\* validateForm(): the DOM it leaves
validateFormDom == validateFormOn(dom)

\* ------------------------------------------------------------- UI helpers
\* setLoadingState(isLoading)
setLoadingState(isLoading) ==
  /\ btnDisabled' = isLoading
  /\ btnLabel' = IF isLoading THEN LabelBusy ELSE LabelOriginal

\* showNotification(message, 'error'): appends the element to document.body
showNotification(message) == notes' = Append(notes, message)

\* showSuccessModal()
showSuccessModal == modalActive' = TRUE

\* formReset left out: the values stay after a successful call
formResetSkipped == value' = value

\* form.reset(): every field back to the value of the markup
formReset == value' = [f \in Fields |-> EmptyStr]

\* ----------------------------------------------------------------- actions
\* handleSubmit without the return after the notification: an invalid form
\* is submitted all the same
handleSubmitNoReturn ==
  /\ pending < MaxPending
  /\ dom' = validateFormDom
  /\ IF validateForm THEN notes' = notes
     ELSE Len(notes) < MaxNotes /\ showNotification(MsgFix)
  /\ setLoadingState(TRUE)
  /\ pending' = pending + 1
  /\ UNCHANGED <<aux, overflow, required, value, modalActive, lastLog, unhandled>>

\* handleSubmit(e) up to its await: validation, then either the early return
\* or the busy state and the start of submitToAPI
handleSubmit ==
  \/ /\ ~validateForm
     /\ Len(notes) < MaxNotes
     /\ dom' = validateFormDom
     /\ showNotification(MsgFix)
     /\ UNCHANGED <<aux, overflow, required, value, btnDisabled, btnLabel, pending, modalActive, lastLog, unhandled>>
  \/ /\ validateForm
     /\ pending < MaxPending
     /\ dom' = validateFormDom
     /\ setLoadingState(TRUE)
     /\ pending' = pending + 1
     /\ UNCHANGED <<aux, overflow, required, value, modalActive, notes, lastLog, unhandled>>

\* submitToAPI resolved: the rest of the try block, then finally
submitResolved ==
  /\ pending > 0
  /\ pending' = pending - 1
  /\ lastLog' = "Form data"
  /\ showSuccessModal
  /\ formReset
  /\ setLoadingState(FALSE)
  /\ UNCHANGED <<aux, overflow, required, dom, notes, unhandled>>

\* submitRejected without the catch block: finally runs, the rejection escapes
submitRejectedNoCatch ==
  /\ pending > 0
  /\ pending' = pending - 1
  /\ unhandled' = TRUE
  /\ setLoadingState(FALSE)
  /\ UNCHANGED <<aux, overflow, required, value, dom, modalActive, notes, lastLog>>

\* submitRejected with showSuccessModal moved into the finally block
submitRejectedShowsModal ==
  /\ pending > 0
  /\ Len(notes) < MaxNotes
  /\ pending' = pending - 1
  /\ lastLog' = "Form submission error"
  /\ showNotification(MsgWrong)
  /\ showSuccessModal
  /\ setLoadingState(FALSE)
  /\ UNCHANGED <<aux, overflow, required, value, dom, unhandled>>

\* submitToAPI rejected: the catch block, then finally
submitRejected ==
  /\ pending > 0
  /\ Len(notes) < MaxNotes
  /\ pending' = pending - 1
  /\ lastLog' = "Form submission error"
  /\ showNotification(MsgWrong)
  /\ setLoadingState(FALSE)
  /\ UNCHANGED <<aux, overflow, required, value, dom, modalActive, unhandled>>

\* the 'input' listeners without the one of setupValidation
inputListenersNoClear(f, raw) ==
  /\ value' = [value EXCEPT ![f] = IF f = "phone" THEN formatPhoneNumber(raw) ELSE raw]
  /\ dom' = dom

\* the two 'input' listeners of a field, in the order they were attached:
\* clearFieldError (setupValidation, required fields), then
\* formatPhoneNumber (setupPhoneFormatting, the phone field)
inputListeners(f, raw) ==
  /\ value' = [value EXCEPT ![f] = IF f = "phone" THEN formatPhoneNumber(raw) ELSE raw]
  /\ dom' = [dom EXCEPT ![f] = IF f \in requiredFields THEN clearFieldError(dom[f]) ELSE dom[f]]

\* 'input' event on a field with raw as its new content
inputEvent(f, raw) ==
  /\ inputListeners(f, raw)
  /\ UNCHANGED <<aux, overflow, required, btnDisabled, btnLabel, pending, modalActive, notes, lastLog, unhandled>>

\* a blur listener that validates the whole form instead of its own field
blurEventWholeForm(f) ==
  /\ f \in requiredFields
  /\ dom' = validateFormDom
  /\ UNCHANGED <<aux, overflow, required, value, btnDisabled, btnLabel, pending, modalActive, notes, lastLog, unhandled>>

\* 'blur' event on a required field: validateField(input)
blurEvent(f) ==
  /\ f \in requiredFields
  /\ dom' = [dom EXCEPT ![f] = validateField(f, dom[f])]
  /\ UNCHANGED <<aux, overflow, required, value, btnDisabled, btnLabel, pending, modalActive, notes, lastLog, unhandled>>

\* the i-th notification leaves the page: removeNotification, run by the
\* auto-remove timer or by a click on its close button
removeNotification(i) ==
  /\ i \in 1..Len(notes)
  /\ notes' = SubSeq(notes, 1, i - 1) \o SubSeq(notes, i + 1, Len(notes))
  /\ UNCHANGED <<aux, overflow, required, value, dom, btnDisabled, btnLabel, pending, modalActive, lastLog, unhandled>>

\* ModalManager.closeModal / window.closeModal on the success modal
closeModal ==
  /\ modalActive
  /\ modalActive' = FALSE
  /\ overflow' = ""
  /\ UNCHANGED <<aux, required, value, dom, btnDisabled, btnLabel, pending, notes, lastLog, unhandled>>

Next ==
  \/ handleSubmit
  \/ submitResolved
  \/ submitRejected
  \/ \E f \in Fields : \E raw \in SamplesFor(f) : inputEvent(f, raw)
  \/ \E f \in Fields : blurEvent(f)
  \/ \E i \in 1..MaxNotes : removeNotification(i)
  \/ closeModal

Spec == Init /\ [][Next]_vars

TypeOK ==
  /\ required \in [Fields -> BOOLEAN]
  /\ pending \in 0..MaxPending
  /\ Len(notes) <= MaxNotes
  /\ btnDisabled \in BOOLEAN
  /\ modalActive \in BOOLEAN

\* ------------------------------------------------- isValidEmail on its own
EmailGood == <<"a", "@", "b", ".", "c", "o">>
EmailNoTld == <<"a", "@", "b">>
EmailNoAt == <<"a", ".", "c", "o", "m">>
EmailExamples == {EmptyStr, EmailGood, EmailNoTld, EmailNoAt}
EmailAlphabet == {"a", "@", ".", " "}

InitEmail ==
  /\ InitForm
  /\ required = [f \in Fields |-> TRUE]
  /\ emailArg \in EmailExamples
  /\ emailOut = isValidEmail(emailArg)
  /\ phoneArg = << >>
  /\ phoneOut = << >>
  /\ keys = << >>
  /\ banners = << >>
  /\ InitExt

\* isValidEmail(email) called on the argument extended by one character
testEmail(c) ==
  /\ Len(emailArg) < MaxEmailLen
  /\ emailArg' = Append(emailArg, c)
  /\ emailOut' = isValidEmail(Append(emailArg, c))
  /\ UNCHANGED <<required, value, dom, btnDisabled, btnLabel, pending, modalActive, notes,
                 lastLog, unhandled, phoneArg, phoneOut, keys, banners, ext, overflow>>

NextEmail == \E c \in EmailAlphabet : testEmail(c)

SpecEmail == InitEmail /\ [][NextEmail]_vars

\* -------------------------------------------- formatPhoneNumber on its own
SevenDigitsStr == <<"5", "5", "5", "1", "2", "3", "4">>
FormattedTenStr == <<"(", "5", "5", "5", ")", " ", "1", "2", "3", "-", "4", "5", "6", "7">>
PhoneExamples == {EmptyStr, SevenDigitsStr, TenDigitsStr, FormattedTenStr}
PhoneAlphabet == {"5", "1", "-"}

IsPrefix(e, s) == Len(e) <= Len(s) /\ SubSeq(s, 1, Len(e)) = e

InitPhone ==
  /\ InitForm
  /\ required = [f \in Fields |-> TRUE]
  /\ phoneArg \in PhoneExamples
  /\ phoneOut = formatPhoneNumber(phoneArg)
  /\ emailArg = << >>
  /\ emailOut = FALSE
  /\ keys = << >>
  /\ banners = << >>
  /\ InitExt

\* formatPhoneNumber(value) called on the argument extended by one character
testFormat(c) ==
  /\ \E e \in PhoneExamples : IsPrefix(e, phoneArg) /\ Len(phoneArg) - Len(e) < MaxPhoneAppend
  /\ phoneArg' = Append(phoneArg, c)
  /\ phoneOut' = formatPhoneNumber(Append(phoneArg, c))
  /\ UNCHANGED <<required, value, dom, btnDisabled, btnLabel, pending, modalActive, notes,
                 lastLog, unhandled, emailArg, emailOut, keys, banners, ext, overflow>>

NextPhone == \E c \in PhoneAlphabet : testFormat(c)

SpecPhone == InitPhone /\ [][NextPhone]_vars

\* ------------------------------------------- typing into the phone field
KeyDigits == {"5", "1"}

\* a digit key pressed with the caret at the end of the phone field: the
\* 'input' event sees the old content followed by the digit
keyPress(d) ==
  /\ Len(keys) < MaxKeys
  /\ keys' = Append(keys, d)
  /\ inputListeners("phone", Append(value["phone"], d))
  /\ UNCHANGED <<required, btnDisabled, btnLabel, pending, modalActive, notes, lastLog, unhandled,
                 emailArg, emailOut, phoneArg, phoneOut, banners, ext, overflow>>

NextKeys ==
  \/ \E d \in KeyDigits : keyPress(d)
  \/ blurEvent("phone")

SpecKeys == Init /\ [][NextKeys]_vars

\* ------------------------------------------ notifications and their timers
\* banners[i]: message; inDom: the element has a parentNode; show: the class
\* 'show'; showTimer, autoTimer: the 100 ms and the 5000 ms timer are pending;
\* removeTimers: pending 300 ms timers of removeNotification; clicks: clicks on
\* the close button; removed: removeChild calls made; error: a callback threw
NewBanner(message) ==
  [message |-> message, inDom |-> TRUE, show |-> FALSE, showTimer |-> TRUE,
   autoTimer |-> TRUE, removeTimers |-> 0, clicks |-> 0, removed |-> 0, error |-> FALSE]

bannerFrame ==
  UNCHANGED <<required, value, dom, btnDisabled, btnLabel, pending, modalActive, notes,
              lastLog, unhandled, emailArg, emailOut, phoneArg, phoneOut, keys, ext, overflow>>

\* showNotification(message, type): element appended, both timers set
bannerShow(message) ==
  /\ Len(banners) < MaxBanners
  /\ banners' = Append(banners, NewBanner(message))
  /\ bannerFrame

\* the 100 ms timer: classList.add('show')
bannerShowTimer(i) ==
  /\ i \in 1..Len(banners)
  /\ banners[i].showTimer
  /\ banners' = [banners EXCEPT ![i].showTimer = FALSE, ![i].show = TRUE]
  /\ bannerFrame

\* click on the close button: removeNotification up to its setTimeout
bannerCloseClick(i) ==
  /\ i \in 1..Len(banners)
  /\ banners[i].inDom
  /\ banners[i].clicks < MaxClicks
  /\ banners' = [banners EXCEPT ![i].show = FALSE,
                                ![i].removeTimers = @ + 1,
                                ![i].clicks = @ + 1]
  /\ bannerFrame

\* the 5000 ms timer, due after the 100 ms one: removeNotification up to its setTimeout
bannerAutoRemove(i) ==
  /\ i \in 1..Len(banners)
  /\ banners[i].autoTimer
  /\ ~banners[i].showTimer
  /\ banners' = [banners EXCEPT ![i].autoTimer = FALSE,
                                ![i].show = FALSE,
                                ![i].removeTimers = @ + 1]
  /\ bannerFrame

\* the 300 ms timer of removeNotification without the parentNode test:
\* removeChild on a missing parent throws
bannerRemoveTimerNoGuard(i) ==
  /\ i \in 1..Len(banners)
  /\ banners[i].removeTimers > 0
  /\ ~banners[i].showTimer
  /\ banners' = [banners EXCEPT ![i].removeTimers = @ - 1,
                                ![i].inDom = FALSE,
                                ![i].removed = @ + 1,
                                ![i].error = ~banners[i].inDom]
  /\ bannerFrame

\* the 300 ms timer of removeNotification, due after the 100 ms one:
\* removeChild if the element still has a parent
bannerRemoveTimer(i) ==
  /\ i \in 1..Len(banners)
  /\ banners[i].removeTimers > 0
  /\ ~banners[i].showTimer
  /\ banners' = IF banners[i].inDom
                THEN [banners EXCEPT ![i].removeTimers = @ - 1,
                                     ![i].inDom = FALSE,
                                     ![i].removed = @ + 1]
                ELSE [banners EXCEPT ![i].removeTimers = @ - 1]
  /\ bannerFrame

NextNotify ==
  \/ \E m \in {MsgFix, MsgWrong} : bannerShow(m)
  \/ \E i \in 1..MaxBanners : bannerShowTimer(i)
  \/ \E i \in 1..MaxBanners : bannerCloseClick(i)
  \/ \E i \in 1..MaxBanners : bannerAutoRemove(i)
  \/ \E i \in 1..MaxBanners : bannerRemoveTimer(i)

InitNotify == Init /\ required = [f \in Fields |-> TRUE]

\* a timer that is set fires; a click may never come
SpecNotify ==
  /\ InitNotify
  /\ [][NextNotify]_vars
  /\ \A i \in 1..MaxBanners :
       /\ WF_vars(bannerShowTimer(i))
       /\ WF_vars(bannerAutoRemove(i))
       /\ WF_vars(bannerRemoveTimer(i))

\* ------------------------------- submit attempts, payloads and their events
CreditIssues == {"collections"}
NameStr == <<"b">>

\* what is typed into a field between and during the attempts
AttemptSamples(f) ==
  IF f = "fullName" THEN {EmptyStr, TextStr, NameStr}
  ELSE IF f = "email" THEN {PaddedEmailStr}
  ELSE {TenDigitsStr}

NoData == "none"
EvInvalid == "validation failed"
EvValid == "validation passed"
EvBusy == "trigger busy"
EvStarted == "call started"
EvCompleted == "call completed"
EvDialog == "success dialog"
EvNotice == "error notification"
EvRestored == "trigger restored"

\* the payload carried over: the data object of the attempt before, when there is one
collectFormDataStale ==
  IF \E k \in 1..Len(attempts) : Head(attempts[k].events) = EvValid
  THEN attempts[CHOOSE k \in 1..Len(attempts) :
                  /\ Head(attempts[k].events) = EvValid
                  /\ \A j \in (k + 1)..Len(attempts) : Head(attempts[j].events) # EvValid].data
  ELSE [fields |-> value, creditIssues |-> checked]

\* data = Object.fromEntries(new FormData(form).entries()) with
\* data.creditIssues, the values of the checked checkboxes: a new object
collectFormData == [fields |-> value, creditIssues |-> checked]

attemptFrame ==
  UNCHANGED <<required, emailArg, emailOut, phoneArg, phoneOut, keys, banners,
              bootVars, menuVars, faqVars, dbVars, thVars, overflow>>

\* handleSubmit that shows the success dialog before the call has settled
handleSubmitAttemptOptimistic ==
  /\ Len(attempts) < MaxAttempts
  /\ validateForm
  /\ pending < MaxPending
  /\ dom' = validateFormDom
  /\ setLoadingState(TRUE)
  /\ pending' = pending + 1
  /\ showSuccessModal
  /\ attempts' = Append(attempts, [data |-> collectFormData, inFlight |-> TRUE,
                                   events |-> <<EvValid, EvBusy, EvStarted, EvDialog>>])
  /\ UNCHANGED <<value, checked, notes, lastLog, unhandled>>
  /\ attemptFrame

\* handleSubmit(e) up to its await, with the attempt's data object and the
\* order of its statements recorded
handleSubmitAttempt ==
  /\ Len(attempts) < MaxAttempts
  /\ \/ /\ ~validateForm
        /\ Len(notes) < MaxNotes
        /\ dom' = validateFormDom
        /\ showNotification(MsgFix)
        /\ attempts' = Append(attempts, [data |-> NoData, inFlight |-> FALSE,
                                         events |-> <<EvInvalid, EvNotice>>])
        /\ UNCHANGED <<btnDisabled, btnLabel, pending>>
     \/ /\ validateForm
        /\ pending < MaxPending
        /\ dom' = validateFormDom
        /\ setLoadingState(TRUE)
        /\ pending' = pending + 1
        /\ attempts' = Append(attempts, [data |-> collectFormData, inFlight |-> TRUE,
                                         events |-> <<EvValid, EvBusy, EvStarted>>])
        /\ UNCHANGED notes
  /\ UNCHANGED <<value, checked, modalActive, lastLog, unhandled>>
  /\ attemptFrame

\* the attempt whose submitToAPI call settles next: every call takes the
\* same 2000 ms, so the calls settle in the order they were started
FirstInFlight ==
  CHOOSE k \in 1..Len(attempts) :
    /\ attempts[k].inFlight
    /\ \A j \in 1..(k - 1) : ~attempts[j].inFlight

\* the attempt's call resolved: the rest of the try block, then finally;
\* form.reset() also unchecks the checkboxes
submitResolvedAttempt ==
  /\ pending > 0
  /\ \E k \in 1..Len(attempts) : attempts[k].inFlight
  /\ attempts' = [attempts EXCEPT ![FirstInFlight].inFlight = FALSE,
                                  ![FirstInFlight].events = @ \o <<EvCompleted, EvDialog, EvRestored>>]
  /\ pending' = pending - 1
  /\ lastLog' = "Form data"
  /\ showSuccessModal
  /\ formReset
  /\ checked' = {}
  /\ setLoadingState(FALSE)
  /\ UNCHANGED <<dom, notes, unhandled>>
  /\ attemptFrame

\* the attempt's call rejected: the catch block, then finally
submitRejectedAttempt ==
  /\ pending > 0
  /\ \E k \in 1..Len(attempts) : attempts[k].inFlight
  /\ Len(notes) < MaxNotes
  /\ attempts' = [attempts EXCEPT ![FirstInFlight].inFlight = FALSE,
                                  ![FirstInFlight].events = @ \o <<EvCompleted, EvNotice, EvRestored>>]
  /\ pending' = pending - 1
  /\ lastLog' = "Form submission error"
  /\ showNotification(MsgWrong)
  /\ setLoadingState(FALSE)
  /\ UNCHANGED <<value, checked, dom, modalActive, unhandled>>
  /\ attemptFrame

\* a checkbox of the form is checked or unchecked
checkboxChange(c) ==
  /\ checked' = IF c \in checked THEN checked \ {c} ELSE checked \cup {c}
  /\ UNCHANGED <<attempts, value, dom, btnDisabled, btnLabel, pending, modalActive, notes,
                 lastLog, unhandled>>
  /\ attemptFrame

NextAttempt ==
  \/ handleSubmitAttempt
  \/ submitResolvedAttempt
  \/ submitRejectedAttempt
  \/ \E f \in Fields : \E raw \in AttemptSamples(f) : inputEvent(f, raw)
  \/ \E c \in CreditIssues : checkboxChange(c)

InitAttempt == Init /\ required = [f \in Fields |-> TRUE]

SpecAttempt == InitAttempt /\ [][NextAttempt]_vars

\* ------------------------------ page load, mobile menu and modal scroll lock
pageFrame ==
  UNCHANGED <<required, value, dom, btnDisabled, btnLabel, pending, notes, lastLog, unhandled,
              emailArg, emailOut, phoneArg, phoneOut, keys, banners, attemptVars, faqVars, dbVars,
              thVars>>

\* how often name occurs among the listeners l
CountOf(l, name) == Len(SelectSeq(l, LAMBDA x : x = name))

\* the script is evaluated in one task: new App() runs App.init, which
\* either registers initializeComponents for DOMContentLoaded or runs it at
\* once; then the listener of the additional components is registered
evalScript ==
  /\ scriptAt = "start"
  /\ scriptAt' = "done"
  /\ IF readyState = "loading"
     THEN /\ dclListeners' = dclListeners \o <<"core", "additional">>
          /\ coreInit' = coreInit
     ELSE /\ dclListeners' = dclListeners \o <<"additional">>
          /\ coreInit' = coreInit + 1
  /\ UNCHANGED <<readyState, dclFired, extraInit, menuVars, overflow, modalActive>>
  /\ pageFrame

\* the parser has finished: readyState becomes 'interactive'
documentParsed ==
  /\ readyState = "loading"
  /\ readyState' = "interactive"
  /\ UNCHANGED <<scriptAt, dclFired, dclListeners, coreInit, extraInit, menuVars, overflow, modalActive>>
  /\ pageFrame

\* DOMContentLoaded is dispatched, once: the listeners registered so far run
domContentLoaded ==
  /\ readyState = "interactive"
  /\ ~dclFired
  /\ dclFired' = TRUE
  /\ coreInit' = coreInit + CountOf(dclListeners, "core")
  /\ extraInit' = extraInit + CountOf(dclListeners, "additional")
  /\ UNCHANGED <<scriptAt, readyState, dclListeners, menuVars, overflow, modalActive>>
  /\ pageFrame

\* the load event: readyState becomes 'complete'
windowLoad ==
  /\ readyState = "interactive"
  /\ dclFired
  /\ readyState' = "complete"
  /\ UNCHANGED <<scriptAt, dclFired, dclListeners, coreInit, extraInit, menuVars, overflow, modalActive>>
  /\ pageFrame

\* updateMenuState() once isOpen is open
updateMenuState(open) ==
  /\ isOpen' = open
  /\ menuDisplay' = IF open THEN "flex" ELSE menuDisplay
  /\ menuOpacity' = IF open THEN menuOpacity ELSE "0"
  /\ menuTimers' = Append(menuTimers, IF open THEN "show" ELSE "hide")
  /\ overflow' = IF open THEN "hidden" ELSE ""

menuFrame ==
  /\ UNCHANGED <<bootVars, modalActive>>
  /\ pageFrame

\* click on the hamburger: toggleMenu()
toggleMenu ==
  /\ coreInit > 0
  /\ Len(menuTimers) < MaxMenuTimers
  /\ updateMenuState(~isOpen)
  /\ menuFrame

\* openMenu()
openMenu ==
  /\ coreInit > 0
  /\ Len(menuTimers) < MaxMenuTimers
  /\ updateMenuState(TRUE)
  /\ menuFrame

\* click on a nav link: closeMenu()
closeMenu ==
  /\ coreInit > 0
  /\ Len(menuTimers) < MaxMenuTimers
  /\ updateMenuState(FALSE)
  /\ menuFrame

\* click outside '.nav-container' while the menu is open: closeMenu()
handleOutsideClick ==
  /\ coreInit > 0
  /\ isOpen
  /\ Len(menuTimers) < MaxMenuTimers
  /\ updateMenuState(FALSE)
  /\ menuFrame

\* handleResize() with the window at least 1024 wide: closeMenu(), overflow = ''
handleResize ==
  /\ coreInit > 0
  /\ Len(menuTimers) < MaxMenuTimers
  /\ updateMenuState(FALSE)
  /\ menuFrame

\* the 10 ms timer of updateMenuState: the oldest pending one fires
menuShowTimer(i) ==
  /\ i \in 1..Len(menuTimers)
  /\ menuTimers[i] = "show"
  /\ \A j \in 1..(i - 1) : menuTimers[j] # "show"
  /\ menuOpacity' = "1"
  /\ menuTimers' = SubSeq(menuTimers, 1, i - 1) \o SubSeq(menuTimers, i + 1, Len(menuTimers))
  /\ UNCHANGED <<isOpen, menuDisplay, overflow>>
  /\ menuFrame

\* the 300 ms timer of updateMenuState: it fires after every timer set before it
menuHideTimer ==
  /\ menuTimers # << >>
  /\ Head(menuTimers) = "hide"
  /\ menuDisplay' = "none"
  /\ menuTimers' = Tail(menuTimers)
  /\ UNCHANGED <<isOpen, menuOpacity, overflow>>
  /\ menuFrame

\* ModalManager.openModal(modalId)
openModal ==
  /\ coreInit > 0
  /\ modalActive' = TRUE
  /\ overflow' = "hidden"
  /\ UNCHANGED <<bootVars, menuVars>>
  /\ pageFrame

NextPage ==
  \/ evalScript
  \/ documentParsed
  \/ domContentLoaded
  \/ windowLoad
  \/ toggleMenu
  \/ openMenu
  \/ closeMenu
  \/ handleOutsideClick
  \/ handleResize
  \/ \E i \in 1..MaxMenuTimers : menuShowTimer(i)
  \/ menuHideTimer
  \/ openModal
  \/ closeModal

\* the document is being parsed and the script has not been evaluated yet
InitPage ==
  /\ InitForm
  /\ required = [f \in Fields |-> TRUE]
  /\ emailArg = << >> /\ emailOut = FALSE /\ phoneArg = << >> /\ phoneOut = << >>
  /\ keys = << >> /\ banners = << >>
  /\ attempts = << >> /\ checked = {}
  /\ scriptAt = "start"
  /\ readyState = "loading"
  /\ dclFired = FALSE
  /\ dclListeners = << >>
  /\ coreInit = 0
  /\ extraInit = 0
  /\ isOpen = FALSE
  /\ menuDisplay = ""
  /\ menuOpacity = ""
  /\ menuTimers = << >>
  /\ overflow = ""
  /\ faqActive = {}
  /\ faqTimers = << >>
  /\ dbTimers = {}
  /\ dbTimeout = NoTimer
  /\ dbCalls = << >>
  /\ dbRuns = << >>
  /\ inThrottle = FALSE
  /\ thTimers = 0
  /\ thExpired = 0
  /\ thCalls = << >>
  /\ thRuns = << >>

SpecPage == InitPage /\ [][NextPage]_vars

\* ----------------------------------------------------------- FAQ accordion
FaqItems == 1..MaxFaqItems

faqFrame ==
  UNCHANGED <<required, value, dom, btnDisabled, btnLabel, pending, modalActive, notes,
              lastLog, unhandled, emailArg, emailOut, phoneArg, phoneOut, keys, banners,
              attemptVars, bootVars, menuVars, dbVars, thVars, overflow>>

\* toggleItem without the loop that closes the other items
toggleItemKeepOthers(item) ==
  LET isActive == item \in faqActive
  IN /\ isActive \/ Len(faqTimers) < MaxFaqTimers
     /\ faqActive' = IF isActive THEN faqActive \ {item} ELSE faqActive \cup {item}
     /\ faqTimers' = IF isActive THEN faqTimers ELSE Append(faqTimers, item)
     /\ faqFrame

\* click on the question of item: toggleItem(item)
toggleItem(item) ==
  LET isActive == item \in faqActive
      othersClosed == faqActive \cap {item}
  IN /\ isActive \/ Len(faqTimers) < MaxFaqTimers
     /\ faqActive' = IF isActive THEN othersClosed \ {item} ELSE othersClosed \cup {item}
     /\ faqTimers' = IF isActive THEN faqTimers ELSE Append(faqTimers, item)
     /\ faqFrame

\* the 100 ms timer of toggleItem: scrollIntoView of the item it was set for
faqScrollTimer ==
  /\ faqTimers # << >>
  /\ faqTimers' = Tail(faqTimers)
  /\ faqActive' = faqActive
  /\ faqFrame

NextFaq ==
  \/ \E item \in FaqItems : toggleItem(item)
  \/ faqScrollTimer

\* the markup has at most one item open
InitFaq ==
  /\ InitForm
  /\ required = [f \in Fields |-> TRUE]
  /\ emailArg = << >> /\ emailOut = FALSE /\ phoneArg = << >> /\ phoneOut = << >>
  /\ keys = << >> /\ banners = << >>
  /\ attempts = << >> /\ checked = {}
  /\ scriptAt = "done" /\ readyState = "complete" /\ dclFired = TRUE
  /\ dclListeners = <<"core", "additional">> /\ coreInit = 1 /\ extraInit = 1
  /\ isOpen = FALSE /\ menuDisplay = "" /\ menuOpacity = "" /\ menuTimers = << >>
  /\ overflow = ""
  /\ faqActive \in {S \in SUBSET FaqItems : Cardinality(S) <= 1}
  /\ faqTimers = << >>
  /\ dbTimers = {} /\ dbTimeout = NoTimer /\ dbCalls = << >> /\ dbRuns = << >>
  /\ inThrottle = FALSE
  /\ thTimers = 0
  /\ thExpired = 0
  /\ thCalls = << >>
  /\ thRuns = << >>

SpecFaq == InitFaq /\ [][NextFaq]_vars

\* ---------------------------------------------------------------- debounce
DebounceArgs == {"x", "y"}

debounceFrame ==
  UNCHANGED <<required, value, dom, btnDisabled, btnLabel, pending, modalActive, notes,
              lastLog, unhandled, emailArg, emailOut, phoneArg, phoneOut, keys, banners,
              attemptVars, bootVars, menuVars, faqVars, thVars, overflow>>

\* clearTimeout(id): the timer with that id, if pending, is cancelled
clearTimeout(timers, id) == {t \in timers : t.id # id}

\* executedFunction without its clearTimeout(timeout)
executedFunctionNoClear(a) ==
  /\ Len(dbCalls) < MaxCalls
  /\ dbCalls' = Append(dbCalls, a)
  /\ dbTimers' = dbTimers \cup {[id |-> Len(dbCalls) + 1, args |-> a]}
  /\ dbTimeout' = Len(dbCalls) + 1
  /\ dbRuns' = dbRuns
  /\ debounceFrame

\* executedFunction(...args): clearTimeout(timeout); timeout = setTimeout(later, wait)
executedFunction(a) ==
  /\ Len(dbCalls) < MaxCalls
  /\ dbCalls' = Append(dbCalls, a)
  /\ dbTimers' = clearTimeout(dbTimers, dbTimeout) \cup {[id |-> Len(dbCalls) + 1, args |-> a]}
  /\ dbTimeout' = Len(dbCalls) + 1
  /\ dbRuns' = dbRuns
  /\ debounceFrame

\* a pending timer expires: later() runs clearTimeout(timeout), then func(...args)
later(t) ==
  /\ t \in dbTimers
  /\ dbTimers' = clearTimeout(dbTimers \ {t}, dbTimeout)
  /\ dbRuns' = Append(dbRuns, t)
  /\ UNCHANGED <<dbTimeout, dbCalls>>
  /\ debounceFrame

NextDebounce ==
  \/ \E a \in DebounceArgs : executedFunction(a)
  \/ \E k \in 1..MaxCalls : \E a \in DebounceArgs : later([id |-> k, args |-> a])

InitDebounce == Init /\ required = [f \in Fields |-> TRUE]

SpecDebounce == InitDebounce /\ [][NextDebounce]_vars

\* ---------------------------------------------------------------- throttle
ThrottleArgs == {"x", "y"}

throttleFrame ==
  UNCHANGED <<required, value, dom, btnDisabled, btnLabel, pending, modalActive, notes,
              lastLog, unhandled, emailArg, emailOut, phoneArg, phoneOut, keys, banners,
              attemptVars, bootVars, menuVars, faqVars, dbVars, overflow>>

\* the throttled function without 'inThrottle = true': every call runs func
\* and sets a timer
throttledNoFlag(a) ==
  /\ Len(thCalls) < MaxThrottleCalls
  /\ thCalls' = Append(thCalls, a)
  /\ IF ~inThrottle
     THEN /\ thRuns' = Append(thRuns, [id |-> Len(thCalls) + 1, args |-> a, expired |-> thExpired])
          /\ inThrottle' = inThrottle
          /\ thTimers' = thTimers + 1
     ELSE UNCHANGED <<thRuns, inThrottle, thTimers>>
  /\ thExpired' = thExpired
  /\ throttleFrame

\* the function throttle returns, called with arguments a: if (!inThrottle)
\* func.apply(context, args), inThrottle = true, setTimeout(..., limit)
throttled(a) ==
  /\ Len(thCalls) < MaxThrottleCalls
  /\ thCalls' = Append(thCalls, a)
  /\ IF ~inThrottle
     THEN /\ thRuns' = Append(thRuns, [id |-> Len(thCalls) + 1, args |-> a, expired |-> thExpired])
          /\ inThrottle' = TRUE
          /\ thTimers' = thTimers + 1
     ELSE UNCHANGED <<thRuns, inThrottle, thTimers>>
  /\ thExpired' = thExpired
  /\ throttleFrame

\* a limit timer fires: inThrottle = false
throttleTimer ==
  /\ thTimers > 0
  /\ thTimers' = thTimers - 1
  /\ inThrottle' = FALSE
  /\ thExpired' = thExpired + 1
  /\ UNCHANGED <<thCalls, thRuns>>
  /\ throttleFrame

NextThrottle ==
  \/ \E a \in ThrottleArgs : throttled(a)
  \/ throttleTimer

InitThrottle == Init /\ required = [f \in Fields |-> TRUE]

SpecThrottle == InitThrottle /\ [][NextThrottle]_vars

\* ------------------------------------------------------------- properties
\* a value with no character other than whitespace
IsBlank(s) == \A i \in 1..Len(s) : s[i] \in WhiteSpace

\* the button as the constructor found it
ButtonRestored == ~btnDisabled /\ btnLabel = LabelOriginal

\* the button in the busy state of setLoadingState(true)
ButtonBusy == btnDisabled /\ btnLabel = LabelBusy

\* C1: re-entrancy guard - at most one submitToAPI call is in flight at any
\* time; a submit event during an unresolved submission starts no second call.
AtMostOneCallInFlight == pending <= 1

\* C2: validation gate - a submit event on which validateForm returns false
\* starts no network call, leaves the trigger control as it was, shows the
\* 'Please fix the errors above' notification and raises nothing.
ValidationGate ==
  [][(handleSubmit /\ ~validateForm) =>
       /\ pending' = pending
       /\ btnDisabled' = btnDisabled /\ btnLabel' = btnLabel
       /\ notes' = Append(notes, MsgFix)
       /\ unhandled' = unhandled]_vars

\* C2 witness: a submit attempt was refused: the aggregate notification is in
\* the page, a required field is annotated, no call is pending, the trigger is idle
ValidationGateWitness ==
  /\ \E i \in 1..Len(notes) : notes[i] = MsgFix
  /\ \E f \in requiredFields : dom[f].error
  /\ pending = 0
  /\ ButtonRestored

\* C3: guaranteed release - when the call of a validated submission settles
\* the trigger control is enabled with its original label, and the control is
\* not restored while a validated submission still awaits its call.
GuaranteedRelease ==
  [][/\ (submitResolved \/ submitRejected) => (~btnDisabled' /\ btnLabel' = LabelOriginal)
     /\ (btnDisabled /\ ~btnDisabled') => pending' = 0]_vars

\* C4: busy invariant - while a network call started by handleSubmit is
\* pending the trigger control is disabled and shows the busy label.
BusyInvariant == pending > 0 => ButtonBusy

\* C5: success outcome - when the network call resolves the success dialog
\* is active, every field is cleared and no notification is added.
SuccessOutcome ==
  [][submitResolved =>
       /\ modalActive'
       /\ \A f \in Fields : value'[f] = EmptyStr
       /\ notes' = notes]_vars

\* C5 witness: a form whose three fields are all required, hence were all
\* filled in, after a resolved call: dialog active, fields cleared
SuccessOutcomeWitness ==
  /\ lastLog = "Form data"
  /\ requiredFields = Fields
  /\ modalActive
  /\ \A f \in Fields : value[f] = EmptyStr

\* C6: transport failure outcome - when the network call rejects exactly one
\* generic notification is added, the success dialog is not activated, the
\* field values stay and the rejection does not leave handleSubmit.
TransportFailureOutcome ==
  [][submitRejected =>
       /\ notes' = Append(notes, MsgWrong)
       /\ modalActive' = modalActive
       /\ value' = value
       /\ unhandled' = unhandled]_vars

\* C6 witness: after a rejected call the generic notification is in the
\* page, the dialog is not active and the entered values are still there
TransportFailureWitness ==
  /\ lastLog = "Form submission error"
  /\ \E i \in 1..Len(notes) : notes[i] = MsgWrong
  /\ ~modalActive
  /\ \E f \in Fields : value[f] # EmptyStr

\* C7: the success dialog becomes active only in the step in which a
\* pending network call resolves successfully, never on a validation
\* failure or a transport failure.
DialogOnlyOnSuccess ==
  [][(~modalActive /\ modalActive') =>
       /\ pending > 0 /\ pending' = pending - 1
       /\ lastLog' = "Form data"
       /\ notes' = notes]_vars

\* C7 witness: the dialog is active after a resolved call, and no error
\* notification is in the page
DialogOnlyOnSuccessWitness ==
  /\ modalActive
  /\ lastLog = "Form data"
  /\ notes = << >>
  /\ pending = 0

\* C8: recovery - after a validation failure or a transport failure has been
\* handled the pipeline is idle: trigger enabled, original label, no call pending.
Recovery ==
  [][((handleSubmit /\ ~validateForm) \/ submitRejected) =>
       (~btnDisabled' /\ btnLabel' = LabelOriginal /\ pending' = 0)]_vars

\* C9: validateForm covers every required field and every non-empty email or
\* phone field, required or not, and returns true iff all of them are valid.
ValidateAllCoverage ==
  validateForm =
    (\A f \in Fields :
       (required[f] \/ ((fieldType(f) = "email" \/ f = "phone") /\ ~IsBlank(value[f])))
         => fieldCheck(f, value[f]).isValid)

\* C10: required-field rule - a required field whose value is empty or only
\* whitespace is invalid; a required field that is neither the email nor the
\* phone field is valid as soon as its value has a non-whitespace character.
RequiredFieldRule ==
  \A f \in requiredFields :
    /\ IsBlank(value[f]) => ~fieldCheck(f, value[f]).isValid
    /\ (fieldType(f) # "email" /\ f # "phone" /\ ~IsBlank(value[f]))
         => fieldCheck(f, value[f]).isValid

\* C10 witness: validateField has annotated a required field that holds only
\* whitespace, and left alone a required text field that holds text
RequiredFieldRuleWitness ==
  /\ \E f \in requiredFields :
       value[f] = BlankStr /\ dom[f].error /\ dom[f].fieldErrors = <<MsgRequired>>
  /\ "fullName" \in requiredFields
  /\ ~IsBlank(value["fullName"]) /\ ~dom["fullName"].error

\* a character that may stand in local, domain or tld
EmailPart(s, from, to) ==
  /\ from <= to
  /\ \A j \in from..to : s[j] \notin WhiteSpace /\ s[j] # "@"

\* s is local@domain.tld for some split at an '@' and a later '.'
EmailShape(s) ==
  \E i \in 1..Len(s), k \in 1..Len(s) :
    /\ i < k
    /\ s[i] = "@" /\ s[k] = "."
    /\ EmailPart(s, 1, i - 1)
    /\ EmailPart(s, i + 1, k - 1)
    /\ EmailPart(s, k + 1, Len(s))

\* C11: isValidEmail accepts exactly the strings local@domain.tld whose three
\* parts are non-empty and free of whitespace and '@'; it accepts "a@b.co"
\* and rejects "a@b", "a.com" and "".
EmailValidation ==
  /\ emailOut = EmailShape(emailArg)
  /\ emailArg = EmailGood => emailOut
  /\ emailArg \in {EmailNoTld, EmailNoAt, EmptyStr} => ~emailOut

\* C11 witness: isValidEmail has accepted a string built character by
\* character, other than the examples
EmailValidationWitness ==
  /\ emailOut
  /\ emailArg = <<"a", "@", "a", ".", "a">>

\* the characters of s that are digits, in their order
DigitsOf(s) == SelectSeq(s, LAMBDA c : c \in Digits)

\* C12: formatPhoneNumber is idempotent - formatting what it returned
\* returns the same string.
PhoneIdempotent == formatPhoneNumber(phoneOut) = phoneOut

\* C12 witness: an argument with a non-digit and nine digits was formatted
\* into something else, and formatting the result again changes nothing
PhoneIdempotentWitness ==
  /\ phoneArg = SevenDigitsStr \o <<"-", "5", "1">>
  /\ phoneOut = <<"(", "5", "5", "5", ")", " ", "1", "2", "3", "-", "4", "5", "1">>
  /\ formatPhoneNumber(phoneOut) = phoneOut

\* C13: the output of formatPhoneNumber holds at most 10 digits, namely the
\* first min(n, 10) digits of the input in their order.
PhoneTruncation ==
  LET d == DigitsOf(phoneArg)
  IN /\ Len(DigitsOf(phoneOut)) <= 10
     /\ DigitsOf(phoneOut) = SubSeq(d, 1, Min(Len(d), 10))

\* what C14 states for k digits d, with the bare digits up to UpTo digits
Grouped(d, UpTo) ==
  IF Len(d) <= UpTo THEN d
  ELSE IF Len(d) <= 6 THEN <<"(">> \o SubSeq(d, 1, 3) \o <<")", " ">> \o SubSeq(d, 4, Len(d))
  ELSE <<"(">> \o SubSeq(d, 1, 3) \o <<")", " ">> \o SubSeq(d, 4, 6) \o <<"-">> \o SubSeq(d, 7, Len(d))

\* C14 as stated: 3 digits AAA render as "(AAA) ", 4 to 6 digits as
\* "(AAA) B..", 7 to 10 digits as "(AAA) BBB-C.."; "555" gives "(555) ".
PhoneGroupingAsStated ==
  LET d == DigitsOf(phoneArg)
  IN Len(d) \in 3..10 => phoneOut = Grouped(d, 2)

\* C14 as amended: 1 to 3 digits render as the bare digits, 4 to 6 digits as
\* "(AAA) B..", 7 to 10 digits as "(AAA) BBB-C.."; "555" gives "555" and
\* "5551234" gives "(555) 123-4".
PhoneGrouping ==
  LET d == DigitsOf(phoneArg)
  IN /\ Len(d) \in 1..10 => phoneOut = Grouped(d, 3)
     /\ phoneArg = ShortDigitsStr => phoneOut = ShortDigitsStr
     /\ phoneArg = SevenDigitsStr
          => phoneOut = <<"(", "5", "5", "5", ")", " ", "1", "2", "3", "-", "4">>

\* C14 witness: three digits were formatted and came back bare
PhoneGroupingWitness ==
  /\ phoneArg = ShortDigitsStr
  /\ phoneOut = ShortDigitsStr

\* C15: after digit keystrokes in the phone field, each followed by
\* formatPhoneNumber, the value passes the phone check of validateField iff
\* at least 10 digits have been typed; digits after the 10th never make a
\* valid value invalid.
PhoneKeysAgree ==
  Len(keys) >= 1 => (fieldCheck("phone", value["phone"]).isValid <=> Len(keys) >= 10)

\* the message validateField shows for a value, stated from its three rules
ExpectedMessage(f, v) ==
  IF f = "phone" /\ ~IsBlank(v) THEN MsgPhone
  ELSE IF fieldType(f) = "email" /\ ~IsBlank(v) THEN MsgEmail
  ELSE MsgRequired

\* C16: right after validateForm returns, every validated field that is
\* invalid carries the error class and one inline message, and every
\* validated field that is valid carries neither, whatever was displayed before.
ValidateAllAnnotation ==
  [][handleSubmit =>
       \A f \in requiredFields :
         IF fieldCheck(f, value[f]).isValid
         THEN ~dom'[f].error /\ dom'[f].fieldErrors = << >>
         ELSE dom'[f].error /\ dom'[f].fieldErrors = <<ExpectedMessage(f, value[f])>>]_vars

\* C16 witness: after a refused submit one required field is annotated and
\* another required field, which is valid, is not
ValidateAllAnnotationWitness ==
  /\ \E i \in 1..Len(notes) : notes[i] = MsgFix
  /\ \E f, g \in requiredFields :
       /\ ~fieldCheck(f, value[f]).isValid /\ dom[f].error /\ Len(dom[f].fieldErrors) = 1
       /\ fieldCheck(g, value[g]).isValid /\ dom[g] = NoError

\* C17: validateForm is idempotent - from any displayed errors, a second
\* call on unchanged values leaves the error classes and messages of the
\* first call, one message per invalid field and none on a valid one.
ValidateAllIdempotent ==
  LET once == validateFormOn(dom)
  IN /\ validateFormOn(once) = once
     /\ \A f \in requiredFields :
          Len(once[f].fieldErrors) = IF fieldCheck(f, value[f]).isValid THEN 0 ELSE 1

\* C17 witness: validateForm has annotated an invalid email, and calling it
\* again would leave the annotations as they are
ValidateAllIdempotentWitness ==
  /\ "email" \in requiredFields
  /\ value["email"] = TextStr
  /\ dom["email"] = [error |-> TRUE, fieldErrors |-> <<MsgEmail>>]
  /\ validateFormDom = dom

\* C18: an input event on a field that can carry an inline error removes
\* that field's error class and message and leaves the other fields' errors.
ErrorClearedOnEdit ==
  [][\A f \in requiredFields :
       (\E raw \in SamplesFor(f) : inputEvent(f, raw)) =>
         /\ dom'[f] = NoError
         /\ \A g \in Fields \ {f} : dom'[g] = dom[g]]_vars

\* C18 witness: two required fields are invalid, one still carries its
\* error and the other, edited since, carries none
ErrorClearedOnEditWitness ==
  \E f, g \in requiredFields :
    /\ f # g
    /\ ~fieldCheck(f, value[f]).isValid /\ dom[f] = NoError /\ value[f] # EmptyStr
    /\ ~fieldCheck(g, value[g]).isValid /\ dom[g].error

\* C20: a submit event handled while an earlier submission's call is pending
\* changes nothing: no validation pass, no inline error added or cleared, no
\* notification, the trigger's disabled flag and label as they were.
ReentrantSubmitNoOp ==
  [][(handleSubmit /\ pending > 0) =>
       UNCHANGED <<dom, notes, btnDisabled, btnLabel, pending>>]_vars

\* C19: every notification shown is eventually removed from the page, after
\* its 5 s timer or a click on its close button; it is removed exactly once,
\* and a later trigger changes nothing and raises no error.
NotificationLifetime ==
  /\ [](\A i \in 1..Len(banners) :
          /\ banners[i].removed <= 1
          /\ ~banners[i].error
          /\ banners[i].inDom <=> banners[i].removed = 0
          /\ banners[i].removed = 1 => (banners[i].clicks > 0 \/ ~banners[i].autoTimer))
  /\ \A i \in 1..MaxBanners :
       [](Len(banners) >= i => <>(Len(banners) >= i /\ ~banners[i].inDom))

\* C19 witness: a notification was dismissed by a click and its 5 s timer
\* fired as well; all its timers are spent and it was removed once
NotificationLifetimeWitness ==
  \E i \in 1..Len(banners) :
    /\ banners[i].clicks > 0
    /\ ~banners[i].autoTimer
    /\ banners[i].removeTimers = 0
    /\ banners[i].removed = 1
    /\ ~banners[i].inDom

\* the events of a refused, a successful and a failed attempt, in their order
EventsRefused == <<EvInvalid, EvNotice>>
EventsSuccess == <<EvValid, EvBusy, EvStarted, EvCompleted, EvDialog, EvRestored>>
EventsFailure == <<EvValid, EvBusy, EvStarted, EvCompleted, EvNotice, EvRestored>>
EventsSubmitting == <<EvValid, EvBusy, EvStarted>>

\* C21: lifecycle ordering - the events of every attempt occur in the order
\* validation pass, trigger busy, call started, call completed, dialog or
\* error notification, trigger restored; Submitting is entered only after a
\* validation pass that returned true, and Success or Failed only after the
\* call of that same attempt has completed.
LifecycleOrdering ==
  /\ [](\A k \in 1..Len(attempts) :
          /\ \/ attempts[k].events = EventsRefused
             \/ /\ IsPrefix(EventsSubmitting, attempts[k].events)
                /\ \/ IsPrefix(attempts[k].events, EventsSuccess)
                   \/ IsPrefix(attempts[k].events, EventsFailure)
          /\ attempts[k].inFlight <=> attempts[k].events = EventsSubmitting)
  /\ [][/\ \A k \in 1..Len(attempts') :
             (k > Len(attempts) /\ IsPrefix(<<EvValid, EvBusy>>, attempts'[k].events))
               => (validateForm /\ btnDisabled' /\ btnLabel' = LabelBusy /\ pending' = pending + 1)
        /\ \A k \in 1..Len(attempts) :
             (Len(attempts'[k].events) > Len(attempts[k].events))
               => /\ attempts[k].inFlight /\ ~attempts'[k].inFlight
                  /\ pending' = pending - 1
                  /\ ~btnDisabled' /\ btnLabel' = LabelOriginal
                  /\ modalActive' \/ notes' = Append(notes, MsgWrong)]_vars

\* C21 witness: of two attempts whose calls were pending together the first
\* ended in the success dialog and the second in the error notification
LifecycleOrderingWitness ==
  /\ Len(attempts) = 2
  /\ attempts[1].events = EventsSuccess
  /\ attempts[2].events = EventsFailure
  /\ modalActive
  /\ ButtonRestored

\* C23: payload freshness - the payload of an attempt's call equals the field
\* values and checked checkbox values at the moment its submit event is
\* handled, carries nothing over from an earlier attempt, and is not altered
\* by edits made after the call has started.
PayloadFreshness ==
  [][/\ \A k \in 1..Len(attempts') :
          (k > Len(attempts) /\ attempts'[k].inFlight)
            => attempts'[k].data = [fields |-> value, creditIssues |-> checked]
     /\ \A k \in 1..Len(attempts) : attempts'[k].data = attempts[k].data]_vars

\* C23 witness: two calls are pending with different payloads, and the
\* name field has been edited since the second one started
PayloadFreshnessWitness ==
  /\ Len(attempts) = 2
  /\ attempts[1].inFlight /\ attempts[2].inFlight
  /\ attempts[1].data # attempts[2].data
  /\ attempts[2].data.fields["fullName"] = NameStr
  /\ value["fullName"] = TextStr

\* C24: on success the form reset discards only submitted data - every value
\* cleared by form.reset() was part of the payload sent by that call; a value
\* typed while the call was pending is not cleared without having been
\* submitted.
ResetDiscardsOnlySubmitted ==
  [][submitResolvedAttempt =>
       \A f \in Fields :
         value'[f] # value[f] => value[f] = attempts[FirstInFlight].data.fields[f]]_vars

\* C22 as stated: validateField is pure - computing the validation result of
\* a field neither adds nor removes the error class or an inline error
\* element on that field or any other field.
ValidateFieldPure ==
  [][\A f \in Fields : blurEvent(f) => dom' = dom]_vars

\* C22 as amended: validateField changes the annotation of the field it is
\* given and of no other field - it removes that field's error class and
\* inline error and, when the value is invalid, adds the class and one
\* inline error with the message of the failed rule.
ValidateFieldEffect ==
  [][\A f \in Fields :
       (value' = value /\ notes' = notes /\ blurEvent(f)) =>
         /\ \A g \in Fields \ {f} : dom'[g] = dom[g]
         /\ dom'[f] = IF fieldCheck(f, value[f]).isValid THEN NoError
                      ELSE [error |-> TRUE, fieldErrors |-> <<ExpectedMessage(f, value[f])>>]
         /\ UNCHANGED <<btnDisabled, btnLabel, pending, modalActive>>]_vars

\* C22 witness: no submit event yet, a blur has annotated one invalid
\* required field and another invalid required field carries nothing
ValidateFieldEffectWitness ==
  /\ lastLog = "none" /\ notes = << >> /\ pending = 0
  /\ \E f, g \in requiredFields :
       /\ f # g
       /\ dom[f] = [error |-> TRUE, fieldErrors |-> <<ExpectedMessage(f, value[f])>>]
       /\ ~fieldCheck(g, value[g]).isValid /\ dom[g] = NoError /\ value[g] = EmptyStr

\* C25: at most one inline error per field - after any sequence of blur,
\* input and submit events each field's container holds at most one
\* '.field-error' element, and it holds one iff the field carries the
\* 'error' class.
OneInlineErrorPerField ==
  \A f \in Fields :
    /\ Len(dom[f].fieldErrors) <= 1
    /\ Len(dom[f].fieldErrors) = 1 <=> dom[f].error

\* C25 witness: after a refused submit two fields carry one inline error
\* each, with different messages, and a third field was never annotated
OneInlineErrorPerFieldWitness ==
  /\ \E i \in 1..Len(notes) : notes[i] = MsgFix
  /\ dom["fullName"] = [error |-> TRUE, fieldErrors |-> <<MsgRequired>>]
  /\ dom["email"] = [error |-> TRUE, fieldErrors |-> <<MsgEmail>>]
  /\ dom["phone"] = NoError

\* C26: mobile menu visibility matches its state once timers settle - after
\* any sequence of toggleMenu/openMenu/closeMenu calls, whenever no menu
\* timer is pending, display is 'flex' if isOpen and 'none' if not; closing
\* and reopening within 300 ms does not leave an open menu hidden.
MenuSettled ==
  (menuTimers = << >> /\ (menuDisplay # "" \/ menuOpacity # ""))
    => menuDisplay = IF isOpen THEN "flex" ELSE "none"

\* C27: page scroll lock is consistent - body overflow is 'hidden' whenever
\* the mobile menu is open or a modal opened through openModal is active;
\* closing one of them never unlocks scrolling while the other is open.
ScrollLock == (isOpen \/ modalActive) => overflow = "hidden"

\* C29: component initialization is independent of load timing - whether the
\* script is evaluated before or after DOMContentLoaded, once the page has
\* loaded the core components and the additional components have each been
\* initialized exactly once.
InitOnceEitherWay ==
  /\ coreInit <= 1 /\ extraInit <= 1
  /\ (scriptAt = "done" /\ readyState = "complete") => (coreInit = 1 /\ extraInit = 1)

\* C28: FAQ accordion exclusivity - starting with at most one active item,
\* after any sequence of question clicks at most one item is active;
\* clicking a closed item makes it the only active item, and clicking the
\* active item leaves no item active.
FaqExclusive ==
  /\ [](Cardinality(faqActive) <= 1)
  /\ [][\A item \in FaqItems :
          toggleItem(item) =>
            faqActive' = IF item \in faqActive THEN {} ELSE {item}]_vars

\* C28 witness: item 1 was opened, then item 2, which is now the only
\* active one; both scroll timers are still pending
FaqExclusiveWitness ==
  /\ faqActive = {2}
  /\ faqTimers = <<1, 2>>

\* C30: debounce - at most one timer is pending at any time; func runs only
\* when a timer expires with no call made since it was set, once, with the
\* arguments of the most recent call; a burst of calls causes exactly one
\* execution of func.
DebounceOnce ==
  /\ [](/\ Cardinality(dbTimers) <= 1
        /\ \A t \in dbTimers : t.id = Len(dbCalls)
        /\ \A i \in 1..Len(dbRuns) :
             /\ dbRuns[i].args = dbCalls[dbRuns[i].id]
             /\ \A j \in 1..(i - 1) : dbRuns[j].id < dbRuns[i].id
        /\ (dbTimers = {} /\ dbCalls # << >>)
             => (dbRuns # << >> /\ dbRuns[Len(dbRuns)].id = Len(dbCalls)))
  /\ [][dbRuns' # dbRuns =>
          /\ dbRuns' = Append(dbRuns, [id |-> Len(dbCalls), args |-> dbCalls[Len(dbCalls)]])
          /\ dbTimers' = {}
          /\ dbCalls' = dbCalls]_vars

\* C30 witness: a burst of three calls, then the timer expired: func ran
\* once, with the arguments of the third call
DebounceOnceWitness ==
  /\ dbCalls = <<"x", "x", "y">>
  /\ dbRuns = <<[id |-> 3, args |-> "y"]>>
  /\ dbTimers = {}

\* C31: throttle - the first call runs func immediately; every call made
\* while the limit timer is pending is dropped and never executed later; the
\* first call after the timer has fired runs func again; func never runs
\* twice without a timer expiry in between, and at most one throttle timer
\* is pending at any time.
ThrottleNoTrailing ==
  /\ [](/\ thTimers <= 1
        /\ inThrottle <=> thTimers = 1
        /\ thCalls # << >> => (thRuns # << >> /\ thRuns[1].id = 1)
        /\ \A i \in 1..Len(thRuns) :
             /\ thRuns[i].args = thCalls[thRuns[i].id]
             /\ \A j \in 1..(i - 1) :
                  thRuns[j].id < thRuns[i].id /\ thRuns[j].expired < thRuns[i].expired)
  /\ [][/\ (thCalls' # thCalls /\ thTimers > 0) => thRuns' = thRuns
        /\ (thCalls' # thCalls /\ thTimers = 0)
             => thRuns' = Append(thRuns, [id |-> Len(thCalls'), args |-> thCalls'[Len(thCalls')],
                                          expired |-> thExpired])
        /\ thCalls' = thCalls => thRuns' = thRuns]_vars

\* C31 witness: the first call ran, two calls during the limit were dropped,
\* the timer fired and the fourth call ran; nothing ran for the dropped calls
ThrottleNoTrailingWitness ==
  /\ thCalls = <<"x", "y", "y", "x">>
  /\ thRuns = <<[id |-> 1, args |-> "x", expired |-> 0], [id |-> 4, args |-> "x", expired |-> 1]>>
  /\ thTimers = 1

====
